---- MODULE Spec2Model ----
(***************************************************************************)
(* Day-capacity appointment scheduling of habitatum: the AvailableDay and  *)
(* Appointment tables, the capacity check verificar_disponibilidad_dia,    *)
(* the two booking views, the Django admin of both models and the          *)
(* cascading deletion of a Property.                                       *)
(*                                                                         *)
(* Every request runs in its own thread against the shared database, so a  *)
(* view is split at its database accesses: the AvailableDay lookup, the    *)
(* count made by esta_disponible(), the second count made for the "full"   *)
(* message, cita.save(), and the cita.save() that writes google_event_id   *)
(* back after the calendar event was created.                              *)
(***************************************************************************)
EXTENDS Integers, FiniteSets, Sequences, TLC

VARIABLES today, propiedades, nextPropPk, dias, nextDiaPk, citas, nextCitaPk,
          req, aum, google_token, eventos, correos, llamada

vars == <<today, propiedades, nextPropPk, dias, nextDiaPk, citas, nextCitaPk,
          req, aum, google_token, eventos, correos, llamada>>

\* the external services and the record of the last calendar-service call
servicios == <<google_token, eventos, correos, llamada>>

----------------------------------------------------------------------------
(* Bounds of the model                                                     *)

\* dates are 0..MaxDate
MaxDate == 1
\* a DateTimeField value is date * SlotsPerDay + time of day
SlotsPerDay == 2
\* largest capacidad_maxima the administrator enters
MaxCap == 2
\* AvailableDay rows ever created (primary keys 1..MaxDias)
MaxDias == 2
\* Property rows ever created
MaxProps == 1
\* Appointment rows ever created
MaxCitas == 3
\* booking requests that can be in flight at the same time
NumReq == 2
\* dates of one calendar month: date f lies in month f \div DiasPorMes
DiasPorMes == 1
\* administrators (users of the dashboard)
NumUsuarios == 2

\* largest ingresos_mensuales a client enters
MaxIngresos == 1

(* Constants of the program                                                *)

\* MinValueValidator(1) on capacidad_maxima
MinCapacidad == 1
\* default=3 of capacidad_maxima
DefaultCapacidad == 3
\* clean_telefono_cliente: at least 10 digits
MinTelefono == 10
\* a null column (None)
None == -1

Dates == 0..MaxDate
DateTimes == 0..((MaxDate + 1) * SlotsPerDay - 1)
Types == {"normal", "prioritaria"}
Caps == MinCapacidad..MaxCap
Reqs == 1..NumReq
Usuarios == 1..NumUsuarios
\* CREDIT_TYPES
CREDIT_TYPES == {"infonavit", "fovissste", "bancario", "contado"}

----------------------------------------------------------------------------
(* Pure functions of models.py and views.py                                *)

\* datetime.date(): drops the time of day
fecha_date(fecha_cita) == fecha_cita \div SlotsPerDay

\* the datetime a DateInput ("YYYY-MM-DD") is cleaned to: midnight of that day
fecha_cita_de_formulario(f) == f * SlotsPerDay

\* obtener_citas_agendadas without the tipo_cita filter
obtener_citas_agendadas_sin_tipo(dia, cs) ==
    {c \in cs : fecha_date(c.fecha_cita) = dia.fecha_disponible}

\* AvailableDay.obtener_citas_agendadas over the Appointment table cs
obtener_citas_agendadas(dia, cs) ==
    {c \in cs : /\ fecha_date(c.fecha_cita) = dia.fecha_disponible
                /\ c.tipo_cita = dia.tipo_cita}

\* obtener_capacidad_disponible without max(0, ...)
obtener_capacidad_disponible_sin_max(dia, cs) ==
    dia.capacidad_maxima - Cardinality(obtener_citas_agendadas(dia, cs))

\* AvailableDay.obtener_capacidad_disponible
obtener_capacidad_disponible(dia, cs) ==
    LET citas_agendadas == Cardinality(obtener_citas_agendadas(dia, cs))
    IN  IF dia.capacidad_maxima - citas_agendadas > 0
        THEN dia.capacidad_maxima - citas_agendadas
        ELSE 0

\* esta_disponible with >= in place of >
esta_disponible_con_cero(dia, cs) == obtener_capacidad_disponible(dia, cs) >= 0

\* esta_disponible that keeps one slot back
esta_disponible_mas_de_uno(dia, cs) == obtener_capacidad_disponible(dia, cs) > 1

\* AvailableDay.esta_disponible
esta_disponible(dia, cs) == obtener_capacidad_disponible(dia, cs) > 0

\* AvailableDay.esta_en_el_pasado
esta_en_el_pasado(dia, hoy) == dia.fecha_disponible < hoy

\* AvailableDay.objects.get without the tipo_cita filter
AvailableDay_get_sin_tipo(ds, fecha, tipo_cita) ==
    {d \in ds : d.fecha_disponible = fecha}

\* AvailableDay.objects.get(fecha_disponible=fecha, tipo_cita=tipo_cita):
\* the set of matching rows (empty: DoesNotExist)
AvailableDay_get(ds, fecha, tipo_cita) ==
    {d \in ds : d.fecha_disponible = fecha /\ d.tipo_cita = tipo_cita}

\* the pair (disponible, mensaje_error) the check returns; the message of a
\* full day carries the booked count and the capacity
Resultado(disponible, motivo, citas_count, capacidad) ==
    [disponible |-> disponible, motivo |-> motivo,
     citas_count |-> citas_count, capacidad |-> capacidad]

NoResultado == Resultado(FALSE, "", 0, 0)

NoDia == [pk |-> 0, fecha_disponible |-> 0, tipo_cita |-> "normal",
          capacidad_maxima |-> 0]

\* verificar_buscar with <= in the past-date test
verificar_buscar_hoy_es_pasado(fecha_cita, tipo_cita, ds, hoy) ==
    LET fecha == fecha_date(fecha_cita)
        found == AvailableDay_get(ds, fecha, tipo_cita)
    IN  IF fecha <= hoy
        THEN [motivo |-> "pasado", dia |-> NoDia]
        ELSE IF found = {}
        THEN [motivo |-> "no_configurado", dia |-> NoDia]
        ELSE IF Cardinality(found) > 1
        THEN [motivo |-> "MultipleObjectsReturned", dia |-> NoDia]
        ELSE [motivo |-> "encontrado", dia |-> CHOOSE d \in found : TRUE]

\* verificar_disponibilidad_dia up to the AvailableDay lookup: the date is
\* taken from the datetime, compared with today, and the row is fetched;
\* get() raises MultipleObjectsReturned, which the function does not catch,
\* when two rows match
verificar_buscar(fecha_cita, tipo_cita, ds, hoy) ==
    LET fecha == fecha_date(fecha_cita)
        found == AvailableDay_get(ds, fecha, tipo_cita)
    IN  IF fecha < hoy
        THEN [motivo |-> "pasado", dia |-> NoDia]
        ELSE IF found = {}
        THEN [motivo |-> "no_configurado", dia |-> NoDia]
        ELSE IF Cardinality(found) > 1
        THEN [motivo |-> "MultipleObjectsReturned", dia |-> NoDia]
        ELSE [motivo |-> "encontrado", dia |-> CHOOSE d \in found : TRUE]

\* mensaje_lleno reporting the remaining capacity in place of the count
mensaje_lleno_con_restante(dia_disponible, cs) ==
    Resultado(FALSE, "lleno",
              obtener_capacidad_disponible(dia_disponible, cs),
              dia_disponible.capacidad_maxima)

\* the return of the "full" branch: the rows are counted for the message
mensaje_lleno(dia_disponible, cs) ==
    Resultado(FALSE, "lleno",
              Cardinality(obtener_citas_agendadas(dia_disponible, cs)),
              dia_disponible.capacidad_maxima)

\* verificar_disponibilidad_dia evaluated on one database state; the motivo
\* "MultipleObjectsReturned" stands for the exception leaving the function
verificar_disponibilidad_dia(fecha_cita, tipo_cita, ds, cs, hoy) ==
    LET b == verificar_buscar(fecha_cita, tipo_cita, ds, hoy)
    IN  IF b.motivo # "encontrado"
        THEN Resultado(FALSE, b.motivo, 0, 0)
        ELSE IF ~ esta_disponible(b.dia, cs)
        THEN mensaje_lleno(b.dia, cs)
        ELSE Resultado(TRUE, "disponible", 0, 0)

----------------------------------------------------------------------------
(* The booking forms of forms.py                                           *)

\* the POST data of a booking form that the validation looks at: the number
\* of digits of telefono_cliente and the two credit fields (None: left empty);
\* and a tipo_cita parameter, which is in Meta.fields of neither form
Formularios == [telefono_digitos : {MinTelefono - 1, MinTelefono},
                ingresos_mensuales : {None} \cup (0..MaxIngresos),
                tipo_credito : {"None"} \cup CREDIT_TYPES,
                tipo_cita : Types]

\* clean_telefono_cliente: ValidationError under 10 digits
clean_telefono_cliente(datos) == datos.telefono_digitos >= MinTelefono

\* clean_ingresos_mensuales that accepts an amount of zero
clean_ingresos_mensuales_con_cero(datos) ==
    IF datos.ingresos_mensuales = None THEN "TypeError"
    ELSE IF datos.ingresos_mensuales < 0 THEN "ValidationError"
    ELSE "ok"

\* clean_ingresos_mensuales: "ingresos <= 0" is evaluated on the cleaned
\* value, which is None for an empty field (blank=True): TypeError
clean_ingresos_mensuales(datos) ==
    IF datos.ingresos_mensuales = None THEN "TypeError"
    ELSE IF datos.ingresos_mensuales <= 0 THEN "ValidationError"
    ELSE "ok"

\* form.is_valid() of NormalAppointmentForm (vista = "normal", the credit
\* fields are not fields of the form) and of PriorityAppointmentForm
is_valid(vista, datos) ==
    IF vista = "normal"
    THEN (IF clean_telefono_cliente(datos) THEN "valido" ELSE "invalido")
    ELSE IF clean_ingresos_mensuales(datos) = "TypeError" THEN "TypeError"
    ELSE IF clean_telefono_cliente(datos) /\ clean_ingresos_mensuales(datos) = "ok"
    THEN "valido"
    ELSE "invalido"

\* form_save that copies the credit fields of the POST data in both forms
form_save_con_credito(vista, datos) ==
    [ingresos_mensuales |-> datos.ingresos_mensuales,
     tipo_credito |-> datos.tipo_credito]

\* form.save(commit=False): the credit fields of the instance; the normal
\* form leaves them at their default, None
form_save(vista, datos) ==
    IF vista = "normal"
    THEN [ingresos_mensuales |-> None, tipo_credito |-> "None"]
    ELSE [ingresos_mensuales |-> datos.ingresos_mensuales,
          tipo_credito |-> datos.tipo_credito]

\* an Appointment row
Cita(pk, property, fecha_cita, tipo_cita, ingresos_mensuales, tipo_credito, google_event_id) ==
    [pk |-> pk, property |-> property, fecha_cita |-> fecha_cita,
     tipo_cita |-> tipo_cita, ingresos_mensuales |-> ingresos_mensuales,
     tipo_credito |-> tipo_credito, google_event_id |-> google_event_id]

----------------------------------------------------------------------------
(* State                                                                   *)
(*   today        timezone.now().date()                                    *)
(*   propiedades  primary keys of the Property rows                        *)
(*   dias         the AvailableDay rows                                    *)
(*   citas        the Appointment rows                                     *)
(*   next*Pk      the next primary key of each table                       *)
(*   req          the booking requests: position in the view, the form's   *)
(*                data, the AvailableDay object loaded, the count seen by  *)
(*                esta_disponible(), the result of the check               *)
(*   aum          the rows an aumentar_capacidad action has loaded and not *)
(*                yet saved                                                *)
(*   google_token the users that have a GoogleApiToken row                 *)
(*   eventos      ids of the events of the remote Google calendar          *)
(*   correos      primary keys of the appointments whose notification      *)
(*                e-mail was sent                                          *)
(*   llamada      the last call of a calendar-service function on an       *)
(*                existing appointment and what it returned                *)

\* a booking request that is not running and has no response yet
Idle == [pc |-> "idle", propiedad |-> 0, fecha_cita |-> 0,
         tipo_cita |-> "normal", dia |-> NoDia, citas_vistas |-> 0,
         resultado |-> NoResultado, ingresos_mensuales |-> None,
         tipo_credito |-> "None", cita |-> 0]

\* positions of a request whose view has not returned yet
EnCurso == {"cargado", "lleno", "admitido", "confirmado", "notificado"}

\* no calendar-service call was made
NoLlamada == [funcion |-> "", retorno |-> ""]

\* the empty database, no request running
Init ==
    /\ today = 0
    /\ propiedades = {}
    /\ nextPropPk = 1
    /\ dias = {}
    /\ nextDiaPk = 1
    /\ citas = {}
    /\ nextCitaPk = 1
    /\ req = [r \in Reqs |-> Idle]
    /\ aum = <<>>
    /\ google_token = {}
    /\ eventos = {}
    /\ correos = {}
    /\ llamada = NoLlamada

----------------------------------------------------------------------------
(* The clock and the property catalogue                                    *)

\* timezone.now().date() moves to the next day
Tick ==
    /\ today < MaxDate
    /\ today' = today + 1
    /\ UNCHANGED <<propiedades, nextPropPk, dias, nextDiaPk, citas,
                   nextCitaPk, req, aum>>
    /\ UNCHANGED servicios

\* dashboard property_create_view, POST with a valid form
property_create_view ==
    /\ nextPropPk <= MaxProps
    /\ propiedades' = propiedades \cup {nextPropPk}
    /\ nextPropPk' = nextPropPk + 1
    /\ UNCHANGED <<today, dias, nextDiaPk, citas, nextCitaPk, req, aum>>
    /\ UNCHANGED servicios

\* delete of a Property in the Django admin (PropertyAdmin), with the
\* cascade to its Appointment rows
PropertyAdmin_delete(pk) ==
    /\ pk \in propiedades
    /\ propiedades' = propiedades \ {pk}
    /\ citas' = {c \in citas : c.property # pk}
    /\ UNCHANGED <<today, nextPropPk, dias, nextDiaPk, nextCitaPk, req, aum>>
    /\ UNCHANGED servicios

\* property_delete_view that deletes on every POST
property_delete_view_sin_confirmar(pk, method, confirmar) ==
    /\ pk \in propiedades
    /\ IF method = "POST"
       THEN /\ propiedades' = propiedades \ {pk}
            /\ citas' = {c \in citas : c.property # pk}
       ELSE UNCHANGED <<propiedades, citas>>
    /\ UNCHANGED <<today, nextPropPk, dias, nextDiaPk, nextCitaPk, req, aum>>
    /\ UNCHANGED servicios

\* dashboard property_delete_view: the property and, by on_delete=CASCADE,
\* its Appointment rows go only for a POST with confirmar = 'ELIMINAR'
property_delete_view(pk, method, confirmar) ==
    /\ pk \in propiedades
    /\ IF method = "POST" /\ confirmar = "ELIMINAR"
       THEN /\ propiedades' = propiedades \ {pk}
            /\ citas' = {c \in citas : c.property # pk}
       ELSE UNCHANGED <<propiedades, citas>>
    /\ UNCHANGED <<today, nextPropPk, dias, nextDiaPk, nextCitaPk, req, aum>>
    /\ UNCHANGED servicios

----------------------------------------------------------------------------
(* The booking views                                                       *)

\* create_appointment_view that checks the day of the tipo_cita parameter
\* of the POST data instead of the view's own type
create_appointment_view_tipo_enviado(r, vista, p, f, datos) ==
    /\ req[r].pc \notin EnCurso
    /\ p \in propiedades
    /\ LET fecha_cita == fecha_cita_de_formulario(f)
           b == verificar_buscar(fecha_cita, datos.tipo_cita, dias, today)
           instancia == form_save(vista, datos)
           base == [Idle EXCEPT !.propiedad = p, !.fecha_cita = fecha_cita,
                                !.tipo_cita = vista]
       IN  req' = [req EXCEPT ![r] =
              IF is_valid(vista, datos) = "TypeError"
              THEN [Idle EXCEPT !.pc = "error"]
              ELSE IF is_valid(vista, datos) = "invalido"
              THEN [Idle EXCEPT !.pc = "invalido"]
              ELSE IF b.motivo = "MultipleObjectsReturned"
              THEN [Idle EXCEPT !.pc = "error"]
              ELSE IF b.motivo # "encontrado"
              THEN [base EXCEPT !.pc = "rechazado",
                                !.resultado = Resultado(FALSE, b.motivo, 0, 0)]
              ELSE [base EXCEPT !.pc = "cargado", !.dia = b.dia,
                                !.ingresos_mensuales = instancia.ingresos_mensuales,
                                !.tipo_credito = instancia.tipo_credito]]
    /\ UNCHANGED <<today, propiedades, nextPropPk, dias, nextDiaPk, citas,
                   nextCitaPk, aum>>
    /\ UNCHANGED servicios

\* create_normal_appointment_view / create_priority_appointment_view, POST,
\* up to the AvailableDay lookup: the property is fetched, the form is
\* validated (an invalid form is rendered again with its errors, a
\* TypeError of clean_ingresos_mensuales leaves the view), the past-date
\* test and AvailableDay.objects.get run; a rejection is rendered at once.
\* vista is the view's own appointment type.
create_appointment_view(r, vista, p, f, datos) ==
    /\ req[r].pc \notin EnCurso
    /\ p \in propiedades
    /\ LET fecha_cita == fecha_cita_de_formulario(f)
           b == verificar_buscar(fecha_cita, vista, dias, today)
           instancia == form_save(vista, datos)
           base == [Idle EXCEPT !.propiedad = p, !.fecha_cita = fecha_cita,
                                !.tipo_cita = vista]
       IN  req' = [req EXCEPT ![r] =
              IF is_valid(vista, datos) = "TypeError"
              THEN [Idle EXCEPT !.pc = "error"]
              ELSE IF is_valid(vista, datos) = "invalido"
              THEN [Idle EXCEPT !.pc = "invalido"]
              ELSE IF b.motivo = "MultipleObjectsReturned"
              THEN [Idle EXCEPT !.pc = "error"]
              ELSE IF b.motivo # "encontrado"
              THEN [base EXCEPT !.pc = "rechazado",
                                !.resultado = Resultado(FALSE, b.motivo, 0, 0)]
              ELSE [base EXCEPT !.pc = "cargado", !.dia = b.dia,
                                !.ingresos_mensuales = instancia.ingresos_mensuales,
                                !.tipo_credito = instancia.tipo_credito]]
    /\ UNCHANGED <<today, propiedades, nextPropPk, dias, nextDiaPk, citas,
                   nextCitaPk, aum>>
    /\ UNCHANGED servicios

\* verificar_esta_disponible that books a provisional row when it admits
verificar_esta_disponible_reserva(r) ==
    /\ req[r].pc = "cargado"
    /\ IF esta_disponible(req[r].dia, citas) /\ nextCitaPk <= MaxCitas
       THEN /\ citas' = citas \cup
                 {Cita(nextCitaPk, req[r].propiedad, req[r].fecha_cita,
                       req[r].tipo_cita, None, "None", None)}
            /\ nextCitaPk' = nextCitaPk + 1
            /\ req' = [req EXCEPT ![r] =
                  [@ EXCEPT !.pc = "admitido",
                            !.citas_vistas =
                               Cardinality(obtener_citas_agendadas(req[r].dia, citas)),
                            !.resultado = Resultado(TRUE, "disponible", 0, 0)]]
       ELSE /\ req' = [req EXCEPT ![r] =
                  [@ EXCEPT !.pc = "lleno",
                            !.citas_vistas =
                               Cardinality(obtener_citas_agendadas(req[r].dia, citas))]]
            /\ UNCHANGED <<citas, nextCitaPk>>
    /\ UNCHANGED <<today, propiedades, nextPropPk, dias, nextDiaPk, aum>>
    /\ UNCHANGED servicios

\* dia_disponible.esta_disponible() on the loaded object: counts the rows
verificar_esta_disponible(r) ==
    /\ req[r].pc = "cargado"
    /\ req' = [req EXCEPT ![r] =
          IF esta_disponible(req[r].dia, citas)
          THEN [@ EXCEPT !.pc = "admitido",
                         !.citas_vistas =
                            Cardinality(obtener_citas_agendadas(req[r].dia, citas)),
                         !.resultado = Resultado(TRUE, "disponible", 0, 0)]
          ELSE [@ EXCEPT !.pc = "lleno",
                         !.citas_vistas =
                            Cardinality(obtener_citas_agendadas(req[r].dia, citas))]]
    /\ UNCHANGED <<today, propiedades, nextPropPk, dias, nextDiaPk, citas,
                   nextCitaPk, aum>>
    /\ UNCHANGED servicios

\* the "full" branch: the rows are counted again for the message, and the
\* view renders the form with the error
verificar_mensaje_lleno(r) ==
    /\ req[r].pc = "lleno"
    /\ req' = [req EXCEPT ![r] =
          [@ EXCEPT !.pc = "rechazado",
                    !.resultado = mensaje_lleno(req[r].dia, citas)]]
    /\ UNCHANGED <<today, propiedades, nextPropPk, dias, nextDiaPk, citas,
                   nextCitaPk, aum>>
    /\ UNCHANGED servicios

\* the in-memory Appointment object of request r, with primary key pk
cita_de(r, pk, google_event_id) ==
    Cita(pk, req[r].propiedad, req[r].fecha_cita, req[r].tipo_cita,
         req[r].ingresos_mensuales, req[r].tipo_credito, google_event_id)

\* cita_save that checks the capacity again and inserts only if there is room
cita_save_revalida(r) ==
    /\ req[r].pc = "admitido"
    /\ IF req[r].propiedad \in propiedades /\ req[r].dia \in dias
          /\ esta_disponible(req[r].dia, citas)
       THEN /\ nextCitaPk <= MaxCitas
            /\ citas' = citas \cup {cita_de(r, nextCitaPk, None)}
            /\ nextCitaPk' = nextCitaPk + 1
            /\ req' = [req EXCEPT ![r] =
                  [@ EXCEPT !.pc = "confirmado", !.cita = nextCitaPk]]
       ELSE /\ req' = [req EXCEPT ![r] = [@ EXCEPT !.pc = "error"]]
            /\ UNCHANGED <<citas, nextCitaPk>>
    /\ UNCHANGED <<today, propiedades, nextPropPk, dias, nextDiaPk, aum>>
    /\ UNCHANGED servicios

\* cita.save(): the row is inserted with the view's type, the loaded
\* property and the form's fields; the foreign key fails when the property
\* was deleted meanwhile
cita_save(r) ==
    /\ req[r].pc = "admitido"
    /\ IF req[r].propiedad \in propiedades
       THEN /\ nextCitaPk <= MaxCitas
            /\ citas' = citas \cup {cita_de(r, nextCitaPk, None)}
            /\ nextCitaPk' = nextCitaPk + 1
            /\ req' = [req EXCEPT ![r] =
                  [@ EXCEPT !.pc = "confirmado", !.cita = nextCitaPk]]
       ELSE /\ req' = [req EXCEPT ![r] = [@ EXCEPT !.pc = "error"]]
            /\ UNCHANGED <<citas, nextCitaPk>>
    /\ UNCHANGED <<today, propiedades, nextPropPk, dias, nextDiaPk, aum>>
    /\ UNCHANGED servicios

\* enviar_notificacion_nueva_cita that deletes the appointment when the
\* e-mail cannot be sent
enviar_notificacion_nueva_cita_o_anula(r, enviado) ==
    /\ req[r].pc = "confirmado"
    /\ correos' = IF enviado THEN correos \cup {req[r].cita} ELSE correos
    /\ citas' = IF enviado THEN citas ELSE {c \in citas : c.pk # req[r].cita}
    /\ req' = [req EXCEPT ![r] =
          [@ EXCEPT !.pc = IF enviado THEN "notificado" ELSE "error"]]
    /\ UNCHANGED <<today, propiedades, nextPropPk, dias, nextDiaPk,
                   nextCitaPk, aum, google_token, eventos, llamada>>

\* enviar_notificacion_nueva_cita(cita) inside the view's try: send_mail
\* either sends the e-mail or raises, and the exception is caught (False)
enviar_notificacion_nueva_cita(r, enviado) ==
    /\ req[r].pc = "confirmado"
    /\ correos' = IF enviado THEN correos \cup {req[r].cita} ELSE correos
    /\ req' = [req EXCEPT ![r] = [@ EXCEPT !.pc = "notificado"]]
    /\ UNCHANGED <<today, propiedades, nextPropPk, dias, nextDiaPk, citas,
                   nextCitaPk, aum, google_token, eventos, llamada>>

\* what the remote calendar does with a call: it carries it out, answers
\* with an HTTP error, or the call fails otherwise (transport, credentials
\* refresh)
Respuestas == {"ok", "HttpError", "otra"}

\* GoogleApiToken.objects.first(): the user of the first token row, None
\* when the table is empty (the callers only use whether a row exists)
GoogleApiToken_first(tokens) ==
    IF tokens = {} THEN None
    ELSE CHOOSE u \in tokens : \A v \in tokens : u <= v

\* Appointment.save() of an in-memory object c: UPDATE by primary key,
\* INSERT when no row has that key; the INSERT raises IntegrityError (no
\* table returned) when the property is gone
Appointment_save(cs, c, props) ==
    IF \E x \in cs : x.pk = c.pk
    THEN {{x \in cs : x.pk # c.pk} \cup {c}}
    ELSE IF c.property \in props
    THEN {cs \cup {c}}
    ELSE {}

\* crear_evento_google_calendar(cita) and the end of the view.
\* crear_evento_en_google_calendar returns None without a token; otherwise
\* it inserts the remote event, and on success sets cita.google_event_id
\* and saves the whole in-memory object.  Every exception is caught; the
\* view redirects to the confirmation page, and of the request only the
\* primary key of its appointment is kept.
crear_evento_google_calendar(r, respuesta) ==
    /\ req[r].pc = "notificado"
    /\ LET id == req[r].cita
           saved == Appointment_save(citas, cita_de(r, req[r].cita, id),
                                     propiedades)
       IN  IF GoogleApiToken_first(google_token) # None /\ respuesta = "ok"
           THEN /\ eventos' = eventos \cup {id}
                /\ IF saved = {} THEN UNCHANGED citas ELSE citas' \in saved
           ELSE UNCHANGED <<eventos, citas>>
    /\ req' = [req EXCEPT ![r] =
          [Idle EXCEPT !.pc = "redirigido", !.cita = req[r].cita]]
    /\ UNCHANGED <<today, propiedades, nextPropPk, dias, nextDiaPk,
                   nextCitaPk, aum, google_token, correos, llamada>>

----------------------------------------------------------------------------
(* Django admin of AvailableDay                                            *)

\* unique_together that lets every pair through
unique_together_sin_restriccion(ds, pk, f, t) == TRUE

\* unique_together (fecha_disponible, tipo_cita), checked against the rows
\* other than pk
unique_together(ds, pk, f, t) ==
    \A d \in ds : d.pk = pk \/ d.fecha_disponible # f \/ d.tipo_cita # t

\* capacidad_maxima as the add form submits it: the field is pre-filled with
\* the model default, so a form the administrator does not touch (None)
\* submits the default
capacidad_del_formulario(cap) == IF cap = None THEN DefaultCapacidad ELSE cap

\* MinValueValidator that lets every capacity through
MinValueValidator_sin_minimo(cap) == TRUE

\* MinValueValidator(1) of capacidad_maxima
MinValueValidator(cap) == cap >= MinCapacidad

\* admin add form of AvailableDay
AvailableDayAdmin_add(f, t, cap) ==
    /\ nextDiaPk <= MaxDias
    /\ MinValueValidator(capacidad_del_formulario(cap))
    /\ unique_together(dias, 0, f, t)
    /\ dias' = dias \cup {[pk |-> nextDiaPk, fecha_disponible |-> f,
                           tipo_cita |-> t,
                           capacidad_maxima |-> capacidad_del_formulario(cap)]}
    /\ nextDiaPk' = nextDiaPk + 1
    /\ UNCHANGED <<today, propiedades, nextPropPk, citas, nextCitaPk, req, aum>>
    /\ UNCHANGED servicios

\* admin change form of AvailableDay
AvailableDayAdmin_change(d, f, t, cap) ==
    /\ d \in dias
    /\ MinValueValidator(cap)
    /\ unique_together(dias, d.pk, f, t)
    /\ dias' = (dias \ {d}) \cup
                 {[pk |-> d.pk, fecha_disponible |-> f, tipo_cita |-> t,
                   capacidad_maxima |-> cap]}
    /\ dias' # dias
    /\ UNCHANGED <<today, propiedades, nextPropPk, nextDiaPk, citas,
                   nextCitaPk, req, aum>>
    /\ UNCHANGED servicios

\* marcar_como_no_disponible that also deletes the appointments booked for
\* the deleted days
marcar_como_no_disponible_en_cascada(queryset) ==
    /\ queryset # {}
    /\ queryset \subseteq dias
    /\ dias' = dias \ queryset
    /\ citas' = {c \in citas :
                    \A d \in queryset : c \notin obtener_citas_agendadas(d, citas)}
    /\ UNCHANGED <<today, propiedades, nextPropPk, nextDiaPk,
                   nextCitaPk, req, aum>>
    /\ UNCHANGED servicios

\* admin delete of one AvailableDay, and the action
\* marcar_como_no_disponible: queryset.delete()
marcar_como_no_disponible(queryset) ==
    /\ queryset # {}
    /\ queryset \subseteq dias
    /\ dias' = dias \ queryset
    /\ UNCHANGED <<today, propiedades, nextPropPk, nextDiaPk, citas,
                   nextCitaPk, req, aum>>
    /\ UNCHANGED servicios

\* position of a row in Meta.ordering = [fecha_disponible, tipo_cita]
orden(d) == d.fecha_disponible * 2 + (IF d.tipo_cita = "normal" THEN 0 ELSE 1)

RECURSIVE ordenar(_)
ordenar(S) ==
    IF S = {} THEN <<>>
    ELSE LET d == CHOOSE x \in S : \A y \in S : orden(x) <= orden(y)
         IN  <<d>> \o ordenar(S \ {d})

\* the (year, month) of a date, as one number
mes_de(fecha) == fecha \div DiasPorMes

\* the list "fechas" built by the loop over the sequence dias_disponibles
RECURSIVE fechas_con_capacidad(_, _)
fechas_con_capacidad(dias_disponibles, cs) ==
    IF dias_disponibles = <<>> THEN <<>>
    ELSE (IF esta_disponible(Head(dias_disponibles), cs)
          THEN <<Head(dias_disponibles).fecha_disponible>>
          ELSE <<>>)
         \o fechas_con_capacidad(Tail(dias_disponibles), cs)

\* obtener_fechas_disponibles_mes without the fecha_disponible__gte filter
obtener_fechas_disponibles_mes_sin_hoy(mes, tipo_cita, ds, cs, hoy) ==
    fechas_con_capacidad(
        ordenar({d \in ds : /\ mes_de(d.fecha_disponible) = mes
                             /\ d.tipo_cita = tipo_cita}), cs)

\* obtener_fechas_disponibles_mes(anio, mes, tipo_cita) evaluated on one
\* database state; mes stands for the pair (anio, mes)
obtener_fechas_disponibles_mes(mes, tipo_cita, ds, cs, hoy) ==
    fechas_con_capacidad(
        ordenar({d \in ds : /\ mes_de(d.fecha_disponible) = mes
                             /\ d.tipo_cita = tipo_cita
                             /\ d.fecha_disponible >= hoy}), cs)

\* aumentar_capacidad: "for dia in queryset" loads the selected rows
aumentar_capacidad(queryset) ==
    /\ aum = <<>>
    /\ queryset # {}
    /\ queryset \subseteq dias
    /\ aum' = ordenar(queryset)
    /\ UNCHANGED <<today, propiedades, nextPropPk, dias, nextDiaPk, citas,
                   nextCitaPk, req>>
    /\ UNCHANGED servicios

\* Model.save() on a table without the unique constraint
Model_save_sin_restriccion(ds, d) ==
    {{x \in ds : x.pk # d.pk} \cup {d}}

\* Model.save() of a loaded row: UPDATE by primary key, INSERT when no row
\* has that key; IntegrityError (None) when another row holds the pair
Model_save(ds, d) ==
    IF ~ unique_together(ds, d.pk, d.fecha_disponible, d.tipo_cita)
    THEN {}
    ELSE {{x \in ds : x.pk # d.pk} \cup {d}}

\* aumentar_capacidad_save that also books the requests the day had
\* rejected as full while it has room (a waiting list)
aumentar_capacidad_save_con_espera ==
    /\ aum # <<>>
    /\ LET dia == [Head(aum) EXCEPT !.capacidad_maxima = @ + 1]
           saved == Model_save(dias, dia)
           espera == {r \in Reqs : /\ req[r].pc = "rechazado"
                                   /\ req[r].resultado.motivo = "lleno"
                                   /\ req[r].dia.pk = dia.pk}
       IN  /\ dia.capacidad_maxima <= MaxCap + 1
           /\ IF saved = {}
              THEN /\ aum' = <<>>
                   /\ UNCHANGED <<dias, citas, nextCitaPk>>
              ELSE /\ aum' = Tail(aum)
                   /\ dias' \in saved
                   /\ IF espera # {} /\ nextCitaPk <= MaxCitas
                      THEN /\ citas' = citas \cup
                                {cita_de(CHOOSE r \in espera : TRUE,
                                         nextCitaPk, None)}
                           /\ nextCitaPk' = nextCitaPk + 1
                      ELSE UNCHANGED <<citas, nextCitaPk>>
    /\ UNCHANGED <<today, propiedades, nextPropPk, nextDiaPk, req>>
    /\ UNCHANGED servicios

\* one round of the loop: dia.capacidad_maxima += 1; dia.save()
aumentar_capacidad_save ==
    /\ aum # <<>>
    /\ LET dia == [Head(aum) EXCEPT !.capacidad_maxima = @ + 1]
           saved == Model_save(dias, dia)
       IN  /\ dia.capacidad_maxima <= MaxCap + 1
           /\ IF saved = {}
              THEN /\ aum' = <<>>
                   /\ UNCHANGED dias
              ELSE /\ aum' = Tail(aum)
                   /\ dias' \in saved
    /\ UNCHANGED <<today, propiedades, nextPropPk, nextDiaPk, citas,
                   nextCitaPk, req>>
    /\ UNCHANGED servicios

----------------------------------------------------------------------------
(* Django admin of Appointment                                             *)

\* what the admin form accepts in the credit fields: ingresos_mensuales is
\* empty or at least 0 (MinValueValidator(0)), tipo_credito is empty or one
\* of CREDIT_TYPES
AppointmentAdmin_valido(ingresos_mensuales, tipo_credito) ==
    /\ ingresos_mensuales = None \/ ingresos_mensuales >= 0
    /\ tipo_credito = "None" \/ tipo_credito \in CREDIT_TYPES

\* admin add form of Appointment: no capacity check; google_event_id is
\* read-only and stays empty
AppointmentAdmin_add(p, fecha_cita, t, ingresos_mensuales, tipo_credito) ==
    /\ nextCitaPk <= MaxCitas
    /\ p \in propiedades
    /\ AppointmentAdmin_valido(ingresos_mensuales, tipo_credito)
    /\ citas' = citas \cup {Cita(nextCitaPk, p, fecha_cita, t,
                                 ingresos_mensuales, tipo_credito, None)}
    /\ nextCitaPk' = nextCitaPk + 1
    /\ UNCHANGED <<today, propiedades, nextPropPk, dias, nextDiaPk, req, aum>>
    /\ UNCHANGED servicios

\* AppointmentAdmin_change with google_event_id editable: the form clears it
AppointmentAdmin_change_edita_evento(c, p, fecha_cita, t, ingresos_mensuales, tipo_credito) ==
    /\ c \in citas
    /\ p \in propiedades
    /\ AppointmentAdmin_valido(ingresos_mensuales, tipo_credito)
    /\ citas' = (citas \ {c}) \cup
                   {Cita(c.pk, p, fecha_cita, t, ingresos_mensuales,
                         tipo_credito, None)}
    /\ citas' # citas
    /\ UNCHANGED <<today, propiedades, nextPropPk, dias, nextDiaPk,
                   nextCitaPk, req, aum>>
    /\ UNCHANGED servicios

\* admin change form of Appointment: every field but google_event_id
AppointmentAdmin_change(c, p, fecha_cita, t, ingresos_mensuales, tipo_credito) ==
    /\ c \in citas
    /\ p \in propiedades
    /\ AppointmentAdmin_valido(ingresos_mensuales, tipo_credito)
    /\ citas' = (citas \ {c}) \cup
                   {Cita(c.pk, p, fecha_cita, t, ingresos_mensuales,
                         tipo_credito, c.google_event_id)}
    /\ citas' # citas
    /\ UNCHANGED <<today, propiedades, nextPropPk, dias, nextDiaPk,
                   nextCitaPk, req, aum>>
    /\ UNCHANGED servicios

\* admin delete of Appointment: the remote event, if any, is left alone
AppointmentAdmin_delete(c) ==
    /\ c \in citas
    /\ citas' = citas \ {c}
    /\ UNCHANGED <<today, propiedades, nextPropPk, dias, nextDiaPk,
                   nextCitaPk, req, aum>>
    /\ UNCHANGED servicios

----------------------------------------------------------------------------
(* google_calendar_service on an existing appointment.  No view of the     *)
(* repository calls these two functions; they are called here with a row   *)
(* that was just loaded.                                                   *)

\* what the remote calendar answers for event id: an HTTP error (404) when
\* it has no such event
respuesta_de(id, respuesta) ==
    IF respuesta = "ok" /\ id \notin eventos THEN "HttpError" ELSE respuesta

\* what a function that catches only HttpError returns for respuesta, or
\* "excepcion" when the fault leaves the function
retorno_de(respuesta) ==
    IF respuesta = "ok" THEN "True"
    ELSE IF respuesta = "HttpError" THEN "False"
    ELSE "excepcion"

\* actualizar_evento_google_calendar(cita): False without event id or
\* token; otherwise the remote event is fetched and updated
actualizar_evento_google_calendar(c, respuesta) ==
    /\ c \in citas
    /\ llamada' =
          [funcion |-> "actualizar_evento_google_calendar",
           retorno |-> IF c.google_event_id = None \/ GoogleApiToken_first(google_token) = None
                       THEN "False"
                       ELSE retorno_de(respuesta_de(c.google_event_id, respuesta))]
    /\ UNCHANGED <<today, propiedades, nextPropPk, dias, nextDiaPk, citas,
                   nextCitaPk, req, aum, google_token, eventos, correos>>

\* eliminar_evento_google_calendar(cita): False without event id or token;
\* otherwise the remote event is deleted, and on success google_event_id is
\* cleared and the object saved
eliminar_evento_google_calendar(c, respuesta) ==
    /\ c \in citas
    /\ LET llama == c.google_event_id # None /\ GoogleApiToken_first(google_token) # None
           resp == respuesta_de(c.google_event_id, respuesta)
       IN  /\ llamada' =
                 [funcion |-> "eliminar_evento_google_calendar",
                  retorno |-> IF llama THEN retorno_de(resp) ELSE "False"]
           /\ IF llama /\ resp = "ok"
              THEN /\ eventos' = eventos \ {c.google_event_id}
                   /\ citas' \in Appointment_save(citas,
                                    [c EXCEPT !.google_event_id = None],
                                    propiedades)
              ELSE UNCHANGED <<eventos, citas>>
    /\ UNCHANGED <<today, propiedades, nextPropPk, dias, nextDiaPk,
                   nextCitaPk, req, aum, google_token, correos>>

----------------------------------------------------------------------------
(* The views of integrations/views.py                                      *)

\* how the OAuth2 round trip of google_callback_view ends: tokens obtained,
\* authorization refused by the user, state mismatch, or an exception
Autorizaciones == {"ok", "error", "state", "excepcion"}

\* google_callback_view of user usuario: update_or_create of the token row
\* when the code was exchanged for tokens; every other outcome redirects
google_callback_view(usuario, autorizacion) ==
    /\ google_token' = IF autorizacion = "ok"
                       THEN google_token \cup {usuario}
                       ELSE google_token
    /\ UNCHANGED <<today, propiedades, nextPropPk, dias, nextDiaPk, citas,
                   nextCitaPk, req, aum, eventos, correos, llamada>>

\* google_disconnect_view of user usuario: a POST deletes the token row of
\* that user if there is one; any other method only redirects
google_disconnect_view(usuario, method) ==
    /\ google_token' = IF method = "POST"
                       THEN google_token \ {usuario}
                       ELSE google_token
    /\ UNCHANGED <<today, propiedades, nextPropPk, dias, nextDiaPk, citas,
                   nextCitaPk, req, aum, eventos, correos, llamada>>

----------------------------------------------------------------------------
\* ingresos_mensuales the administrator enters
IngresosAdmin == {None} \cup (0..MaxIngresos)

\* tipo_credito values submitted
TiposCredito == {"None"} \cup CREDIT_TYPES

Next ==
    \/ Tick
    \/ property_create_view
    \/ \E pk \in propiedades, method \in {"GET", "POST"},
          confirmar \in {"ELIMINAR", ""} :
          property_delete_view(pk, method, confirmar)
    \/ \E r \in Reqs, vista \in Types, p \in propiedades, f \in Dates,
          datos \in Formularios :
          create_appointment_view(r, vista, p, f, datos)
    \/ \E r \in Reqs : verificar_esta_disponible(r)
    \/ \E r \in Reqs : verificar_mensaje_lleno(r)
    \/ \E r \in Reqs : cita_save(r)
    \/ \E r \in Reqs, enviado \in BOOLEAN : enviar_notificacion_nueva_cita(r, enviado)
    \/ \E r \in Reqs, respuesta \in Respuestas :
          crear_evento_google_calendar(r, respuesta)
    \/ \E usuario \in Usuarios, autorizacion \in Autorizaciones :
          google_callback_view(usuario, autorizacion)
    \/ \E usuario \in Usuarios, method \in {"GET", "POST"} :
          google_disconnect_view(usuario, method)
    \/ \E pk \in propiedades : PropertyAdmin_delete(pk)
    \/ \E f \in Dates, t \in Types, cap \in {None} \cup (0..MaxCap) :
          AvailableDayAdmin_add(f, t, cap)
    \/ \E d \in dias, f \in Dates, t \in Types, cap \in 0..MaxCap :
          AvailableDayAdmin_change(d, f, t, cap)
    \/ \E queryset \in SUBSET dias : marcar_como_no_disponible(queryset)
    \/ \E queryset \in SUBSET dias : aumentar_capacidad(queryset)
    \/ aumentar_capacidad_save
    \/ \E p \in propiedades, fecha_cita \in DateTimes, t \in Types,
          i \in IngresosAdmin, tc \in TiposCredito :
          AppointmentAdmin_add(p, fecha_cita, t, i, tc)
    \/ \E c \in citas, p \in propiedades, fecha_cita \in DateTimes, t \in Types,
          i \in IngresosAdmin, tc \in TiposCredito :
          AppointmentAdmin_change(c, p, fecha_cita, t, i, tc)
    \/ \E c \in citas : AppointmentAdmin_delete(c)
    \/ \E c \in citas, respuesta \in Respuestas :
          actualizar_evento_google_calendar(c, respuesta)
    \/ \E c \in citas, respuesta \in Respuestas :
          eliminar_evento_google_calendar(c, respuesta)

Spec == Init /\ [][Next]_vars

----------------------------------------------------------------------------
(* Database states the administrator can set up through the admin          *)

\* position of a row given as a tuple <<date, type, ...>>
ordenFila(x) == x[1] * 2 + (IF x[2] = "normal" THEN 0 ELSE 1)

\* the AvailableDay table whose rows fila[1], fila[2], ... were added in
\* this order
TablaDias(fila) ==
    {[pk |-> i, fecha_disponible |-> fila[i][1], tipo_cita |-> fila[i][2],
      capacidad_maxima |-> fila[i][3]] : i \in DOMAIN fila}

\* one table per set of (date, type) pairs and capacities: rows in
\* Meta.ordering, primary keys in the order of creation
DiasConfigurados ==
    UNION {{TablaDias(fila) :
              fila \in {g \in [1..n -> Dates \X Types \X Caps] :
                          \A i, j \in 1..n :
                             i < j => ordenFila(g[i]) < ordenFila(g[j])}}
           : n \in 0..MaxDias}

\* a form filled in completely and correctly
FormularioCompleto ==
    [telefono_digitos |-> MinTelefono, ingresos_mensuales |-> MaxIngresos,
     tipo_credito |-> "infonavit", tipo_cita |-> "normal"]

\* complete forms posted with either tipo_cita parameter
FormulariosReservas ==
    {[FormularioCompleto EXCEPT !.tipo_cita = t] : t \in Types}

\* the Appointment table whose rows were added in this order for property
\* p, row i at time of day i % SlotsPerDay, from complete forms and with no
\* calendar event
TablaCitas(fila, p) ==
    {Cita(i, p, fila[i][1] * SlotsPerDay + (i % SlotsPerDay), fila[i][2],
          form_save(fila[i][2], FormularioCompleto).ingresos_mensuales,
          form_save(fila[i][2], FormularioCompleto).tipo_credito, None)
       : i \in DOMAIN fila}

CitasRegistradas(p) ==
    UNION {{TablaCitas(fila, p) :
              fila \in {g \in [1..n -> Dates \X Types] :
                          \A i, j \in 1..n :
                             i < j => ordenFila(g[i]) <= ordenFila(g[j])}}
           : n \in 0..MaxCitas}

----------------------------------------------------------------------------
(* Booking requests running concurrently on a configured calendar, with    *)
(* complete forms, the mail server down and Google Calendar not connected  *)

InitReservas ==
    /\ today = 0
    /\ propiedades = 1..MaxProps
    /\ nextPropPk = MaxProps + 1
    /\ dias \in DiasConfigurados
    /\ nextDiaPk = Cardinality(dias) + 1
    /\ citas = {}
    /\ nextCitaPk = 1
    /\ req = [r \in Reqs |-> Idle]
    /\ aum = <<>>
    /\ google_token = {}
    /\ eventos = {}
    /\ correos = {}
    /\ llamada = NoLlamada

NextReservas ==
    \/ Tick
    \/ \E pk \in propiedades, method \in {"GET", "POST"},
          confirmar \in {"ELIMINAR", ""} :
          property_delete_view(pk, method, confirmar)
    \/ \E r \in Reqs, vista \in Types, p \in propiedades, f \in Dates,
          datos \in FormulariosReservas :
          create_appointment_view(r, vista, p, f, datos)
    \/ \E r \in Reqs : verificar_esta_disponible(r)
    \/ \E r \in Reqs : verificar_mensaje_lleno(r)
    \/ \E r \in Reqs : cita_save(r)
    \/ \E r \in Reqs : enviar_notificacion_nueva_cita(r, FALSE)
    \/ \E r \in Reqs, respuesta \in Respuestas :
          crear_evento_google_calendar(r, respuesta)

SpecReservas == InitReservas /\ [][NextReservas]_vars

----------------------------------------------------------------------------
(* The administrator working on a calendar that already has appointments   *)

InitAdmin ==
    /\ today \in Dates
    /\ propiedades = 1..MaxProps
    /\ nextPropPk = MaxProps + 1
    /\ dias \in DiasConfigurados
    /\ nextDiaPk = Cardinality(dias) + 1
    /\ citas \in UNION {CitasRegistradas(p) : p \in propiedades}
    /\ nextCitaPk = Cardinality(citas) + 1
    /\ req = [r \in Reqs |-> Idle]
    /\ aum = <<>>
    /\ google_token = {}
    /\ eventos = {}
    /\ correos = {}
    /\ llamada = NoLlamada

NextAdmin ==
    \/ \E f \in Dates, t \in Types, cap \in 0..MaxCap : AvailableDayAdmin_add(f, t, cap)
    \/ \E d \in dias, f \in Dates, t \in Types, cap \in 0..MaxCap :
          AvailableDayAdmin_change(d, f, t, cap)
    \/ \E queryset \in SUBSET dias : marcar_como_no_disponible(queryset)
    \/ \E queryset \in SUBSET dias : aumentar_capacidad(queryset)
    \/ aumentar_capacidad_save

SpecAdmin == InitAdmin /\ [][NextAdmin]_vars

----------------------------------------------------------------------------
(* Booking requests with every kind of form, the mail server up or down,   *)
(* Google Calendar connected or not, on a calendar whose one record, for   *)
(* the last date, has its capacity raised by the administrator             *)

\* the forms submitted: a telephone too short or long enough, the income
\* empty, zero or positive, one credit type
FormulariosServicios ==
    {datos \in Formularios :
        datos.tipo_credito = "infonavit" /\ datos.tipo_cita = "normal"}

InitServicios ==
    /\ today = 0
    /\ propiedades = 1..MaxProps
    /\ nextPropPk = MaxProps + 1
    /\ dias \in {ds \in DiasConfigurados :
                   /\ Cardinality(ds) = 1
                   /\ \A d \in ds : d.fecha_disponible = MaxDate}
    /\ nextDiaPk = 2
    /\ citas = {}
    /\ nextCitaPk = 1
    /\ req = [r \in Reqs |-> Idle]
    /\ aum = <<>>
    /\ google_token \in {{}, {1}}
    /\ eventos = {}
    /\ correos = {}
    /\ llamada = NoLlamada

NextServicios ==
    \/ \E pk \in propiedades, method \in {"GET", "POST"},
          confirmar \in {"ELIMINAR", ""} :
          property_delete_view(pk, method, confirmar)
    \/ \E r \in Reqs, vista \in Types, p \in propiedades, f \in Dates,
          datos \in FormulariosServicios :
          create_appointment_view(r, vista, p, f, datos)
    \/ \E r \in Reqs : verificar_esta_disponible(r)
    \/ \E r \in Reqs : verificar_mensaje_lleno(r)
    \/ \E r \in Reqs : cita_save(r)
    \/ \E r \in Reqs, enviado \in BOOLEAN : enviar_notificacion_nueva_cita(r, enviado)
    \/ \E r \in Reqs, respuesta \in Respuestas :
          crear_evento_google_calendar(r, respuesta)
    \/ \E queryset \in SUBSET dias : aumentar_capacidad(queryset)
    \/ aumentar_capacidad_save

SpecServicios == InitServicios /\ [][NextServicios]_vars

----------------------------------------------------------------------------
(* The calendar service: bookings from complete forms with the mail server *)
(* down, Google Calendar connected or not, and the update and the deletion *)
(* of the remote event of an appointment                                   *)

InitCalendario ==
    /\ today = 0
    /\ propiedades = 1..MaxProps
    /\ nextPropPk = MaxProps + 1
    /\ dias \in {ds \in DiasConfigurados :
                   /\ Cardinality(ds) = 1
                   /\ \A d \in ds : d.fecha_disponible = MaxDate}
    /\ nextDiaPk = 2
    /\ citas = {}
    /\ nextCitaPk = 1
    /\ req = [r \in Reqs |-> Idle]
    /\ aum = <<>>
    /\ google_token \in {{}, {1}}
    /\ eventos = {}
    /\ correos = {}
    /\ llamada = NoLlamada

NextCalendario ==
    \/ \E pk \in propiedades, method \in {"GET", "POST"},
          confirmar \in {"ELIMINAR", ""} :
          property_delete_view(pk, method, confirmar)
    \/ \E r \in Reqs, vista \in Types, p \in propiedades, f \in Dates :
          create_appointment_view(r, vista, p, f, FormularioCompleto)
    \/ \E r \in Reqs : verificar_esta_disponible(r)
    \/ \E r \in Reqs : verificar_mensaje_lleno(r)
    \/ \E r \in Reqs : cita_save(r)
    \/ \E r \in Reqs : enviar_notificacion_nueva_cita(r, FALSE)
    \/ \E r \in Reqs, respuesta \in Respuestas :
          crear_evento_google_calendar(r, respuesta)
    \/ \E c \in citas, respuesta \in Respuestas :
          actualizar_evento_google_calendar(c, respuesta)
    \/ \E c \in citas, respuesta \in Respuestas :
          eliminar_evento_google_calendar(c, respuesta)

SpecCalendario == InitCalendario /\ [][NextCalendario]_vars

----------------------------------------------------------------------------
(* The administrator editing appointments while bookings from complete     *)
(* forms run on one record of the largest capacity, with the mail server   *)
(* down and Google Calendar connected                                      *)

\* the credit fields the administrator enters: both empty or both filled
CreditoAdmin == {<<None, "None">>, <<MaxIngresos, "infonavit">>}

InitCitas ==
    /\ today = 0
    /\ propiedades = 1..MaxProps
    /\ nextPropPk = MaxProps + 1
    /\ dias \in {ds \in DiasConfigurados :
                   /\ Cardinality(ds) = 1
                   /\ \A d \in ds : /\ d.fecha_disponible = MaxDate
                                    /\ d.tipo_cita = "normal"
                                    /\ d.capacidad_maxima = MaxCap}
    /\ nextDiaPk = 2
    /\ citas = {}
    /\ nextCitaPk = 1
    /\ req = [r \in Reqs |-> Idle]
    /\ aum = <<>>
    /\ google_token = {1}
    /\ eventos = {}
    /\ correos = {}
    /\ llamada = NoLlamada

NextCitas ==
    \/ \E pk \in propiedades, method \in {"GET", "POST"},
          confirmar \in {"ELIMINAR", ""} :
          property_delete_view(pk, method, confirmar)
    \/ \E r \in Reqs, vista \in Types, p \in propiedades, f \in Dates :
          create_appointment_view(r, vista, p, f, FormularioCompleto)
    \/ \E r \in Reqs : verificar_esta_disponible(r)
    \/ \E r \in Reqs : verificar_mensaje_lleno(r)
    \/ \E r \in Reqs : cita_save(r)
    \/ \E r \in Reqs : enviar_notificacion_nueva_cita(r, FALSE)
    \/ \E r \in Reqs, respuesta \in Respuestas :
          crear_evento_google_calendar(r, respuesta)
    \/ \E p \in propiedades, t \in Types, cr \in CreditoAdmin :
          AppointmentAdmin_add(p, fecha_cita_de_formulario(MaxDate), t,
                               cr[1], cr[2])
    \/ \E c \in citas, p \in propiedades, t \in Types, cr \in CreditoAdmin :
          AppointmentAdmin_change(c, p, fecha_cita_de_formulario(MaxDate), t,
                                  cr[1], cr[2])
    \/ \E c \in citas : AppointmentAdmin_delete(c)

SpecCitas == InitCitas /\ [][NextCitas]_vars

----------------------------------------------------------------------------
(* The administrator configuring the calendar, with the capacity of a new  *)
(* record set or left at its default                                       *)

\* capacities typed into the form: below the minimum, and the valid ones
CapacidadesFormulario == 0..MaxCap

InitCapacidad ==
    /\ today = 0
    /\ propiedades = 1..MaxProps
    /\ nextPropPk = MaxProps + 1
    /\ dias \in DiasConfigurados
    /\ nextDiaPk = Cardinality(dias) + 1
    /\ citas = {}
    /\ nextCitaPk = 1
    /\ req = [r \in Reqs |-> Idle]
    /\ aum = <<>>
    /\ google_token = {}
    /\ eventos = {}
    /\ correos = {}
    /\ llamada = NoLlamada

NextCapacidad ==
    \/ \E f \in Dates, t \in Types, cap \in {None} \cup CapacidadesFormulario :
          AvailableDayAdmin_add(f, t, cap)
    \/ \E d \in dias, f \in Dates, t \in Types, cap \in CapacidadesFormulario :
          AvailableDayAdmin_change(d, f, t, cap)
    \/ \E queryset \in SUBSET dias : marcar_como_no_disponible(queryset)
    \/ \E queryset \in SUBSET dias : aumentar_capacidad(queryset)
    \/ aumentar_capacidad_save

SpecCapacidad == InitCapacidad /\ [][NextCapacidad]_vars

----------------------------------------------------------------------------
(* Administrators connecting and disconnecting Google Calendar between     *)
(* bookings: every administrator starts connected, and a disconnection     *)
(* arrives while no booking request is in flight                           *)

InitIntegracion ==
    /\ today = 0
    /\ propiedades = 1..MaxProps
    /\ nextPropPk = MaxProps + 1
    /\ dias \in {ds \in DiasConfigurados :
                   /\ Cardinality(ds) = 1
                   /\ \A d \in ds : /\ d.fecha_disponible = MaxDate
                                    /\ d.tipo_cita = "normal"
                                    /\ d.capacidad_maxima = MaxCap}
    /\ nextDiaPk = 2
    /\ citas = {}
    /\ nextCitaPk = 1
    /\ req = [r \in Reqs |-> Idle]
    /\ aum = <<>>
    /\ google_token = Usuarios
    /\ eventos = {}
    /\ correos = {}
    /\ llamada = NoLlamada

NextIntegracion ==
    \/ \E usuario \in Usuarios, autorizacion \in Autorizaciones :
          google_callback_view(usuario, autorizacion)
    \/ \E usuario \in Usuarios, method \in {"GET", "POST"} :
          /\ \A r \in Reqs : req[r].pc \notin EnCurso
          /\ google_disconnect_view(usuario, method)
    \/ \E r \in Reqs, vista \in Types, p \in propiedades :
          create_appointment_view(r, vista, p, MaxDate, FormularioCompleto)
    \/ \E r \in Reqs : verificar_esta_disponible(r)
    \/ \E r \in Reqs : verificar_mensaje_lleno(r)
    \/ \E r \in Reqs : cita_save(r)
    \/ \E r \in Reqs : enviar_notificacion_nueva_cita(r, FALSE)
    \/ \E r \in Reqs, respuesta \in Respuestas :
          crear_evento_google_calendar(r, respuesta)

SpecIntegracion == InitIntegracion /\ [][NextIntegracion]_vars

----------------------------------------------------------------------------
(* Requests served one at a time: a booking request starts only when no    *)
(* other is in flight and runs to its end before the administrator acts;   *)
(* the administrator adds records and edits them without lowering the      *)
(* capacity, and deletes none                                              *)

\* no booking request is between its form validation and its response
NadieEnCurso == \A r \in Reqs : req[r].pc \notin EnCurso

InitSinIntercalar ==
    /\ today = 0
    /\ propiedades = 1..MaxProps
    /\ nextPropPk = MaxProps + 1
    /\ dias \in DiasConfigurados
    /\ nextDiaPk = Cardinality(dias) + 1
    /\ citas = {}
    /\ nextCitaPk = 1
    /\ req = [r \in Reqs |-> Idle]
    /\ aum = <<>>
    /\ google_token = {}
    /\ eventos = {}
    /\ correos = {}
    /\ llamada = NoLlamada

NextSinIntercalar ==
    \/ \E r \in Reqs, vista \in Types, p \in propiedades, f \in Dates :
          /\ NadieEnCurso
          /\ create_appointment_view(r, vista, p, f, FormularioCompleto)
    \/ \E r \in Reqs : verificar_esta_disponible(r)
    \/ \E r \in Reqs : verificar_mensaje_lleno(r)
    \/ \E r \in Reqs : cita_save(r)
    \/ \E r \in Reqs : enviar_notificacion_nueva_cita(r, FALSE)
    \/ \E r \in Reqs, respuesta \in Respuestas :
          crear_evento_google_calendar(r, respuesta)
    \/ \E f \in Dates, t \in Types, cap \in Caps :
          /\ NadieEnCurso
          /\ AvailableDayAdmin_add(f, t, cap)
    \/ \E d \in dias, f \in Dates, t \in Types, cap \in Caps :
          /\ NadieEnCurso
          /\ cap >= d.capacidad_maxima
          /\ AvailableDayAdmin_change(d, f, t, cap)

SpecSinIntercalar == InitSinIntercalar /\ [][NextSinIntercalar]_vars

----------------------------------------------------------------------------
(* Properties being deleted while clients book on them: two properties,    *)
(* one record for the last date                                            *)

\* values of the field 'confirmar' of the confirmation form
Confirmaciones == {"ELIMINAR", "eliminar", ""}

InitPropiedades ==
    /\ today = 0
    /\ propiedades = 1..(MaxProps + 1)
    /\ nextPropPk = MaxProps + 2
    /\ dias \in {ds \in DiasConfigurados :
                   /\ Cardinality(ds) = 1
                   /\ \A d \in ds : /\ d.fecha_disponible = MaxDate
                                    /\ d.tipo_cita = "normal"
                                    /\ d.capacidad_maxima = MaxCap}
    /\ nextDiaPk = 2
    /\ citas = {}
    /\ nextCitaPk = 1
    /\ req = [r \in Reqs |-> Idle]
    /\ aum = <<>>
    /\ google_token \in {{}, {1}}
    /\ eventos = {}
    /\ correos = {}
    /\ llamada = NoLlamada

NextPropiedades ==
    \/ \E pk \in propiedades, method \in {"GET", "POST"},
          confirmar \in Confirmaciones :
          property_delete_view(pk, method, confirmar)
    \/ \E pk \in propiedades : PropertyAdmin_delete(pk)
    \/ \E r \in Reqs, vista \in Types, p \in propiedades :
          create_appointment_view(r, vista, p, MaxDate, FormularioCompleto)
    \/ \E r \in Reqs : verificar_esta_disponible(r)
    \/ \E r \in Reqs : verificar_mensaje_lleno(r)
    \/ \E r \in Reqs : cita_save(r)
    \/ \E r \in Reqs : enviar_notificacion_nueva_cita(r, FALSE)
    \/ \E r \in Reqs, respuesta \in Respuestas :
          crear_evento_google_calendar(r, respuesta)

SpecPropiedades == InitPropiedades /\ [][NextPropiedades]_vars

----------------------------------------------------------------------------
(* Properties                                                              *)

\* Appointment rows of table cs whose fecha_cita falls on date f and whose
\* tipo_cita is t
bookedCount(cs, f, t) ==
    Cardinality({c \in cs : c.fecha_cita \div SlotsPerDay = f /\ c.tipo_cita = t})

Booked(d) == bookedCount(citas, d.fecha_disponible, d.tipo_cita)

\* request r is for the (date, type) of the AvailableDay row d
PideDia(r, d) ==
    /\ req[r].fecha_cita \div SlotsPerDay = d.fecha_disponible
    /\ req[r].tipo_cita = d.tipo_cita

\* the check of request r is still current: the row it loaded is the row of
\* the table and the count it saw is the count now
Vigente(r, d) == req[r].dia = d /\ req[r].citas_vistas = Booked(d)

\* C1 as stated: in every reachable state, for every AvailableDay record the
\* number of Appointment rows of its date and type does not exceed its
\* capacidad_maxima.
C1_NuncaSobreCapacidad ==
    \A d \in dias : Booked(d) <= d.capacidad_maxima

\* C1 amended: while the AvailableDay rows are not modified and Appointment
\* rows are added only by the booking views, a step takes a record from
\* "booked <= capacidad_maxima" to "booked > capacidad_maxima" only if it is
\* the cita.save() of a request for that (date, type) whose check is no
\* longer current (another Appointment of that date and type was saved
\* between its check and its save).
C1_SoloLaCarreraExcede ==
    [][\A d \in dias :
          (/\ d \in dias'
           /\ Booked(d) <= d.capacidad_maxima
           /\ bookedCount(citas', d.fecha_disponible, d.tipo_cita) > d.capacidad_maxima)
          => \E r \in Reqs : /\ req[r].pc = "admitido"
                             /\ req'[r].pc = "confirmado"
                             /\ PideDia(r, d)
                             /\ ~ Vigente(r, d)]_vars

\* C1 witness: a request whose check was current was saved and filled the
\* last slot of a day of capacity 2 or more.
C1_DiaLlenadoPorReserva ==
    \E r \in Reqs : /\ req[r].pc = "confirmado"
                    /\ req[r].dia \in dias
                    /\ req[r].dia.capacidad_maxima >= 2
                    /\ req[r].citas_vistas = req[r].dia.capacidad_maxima - 1
                    /\ Booked(req[r].dia) = req[r].dia.capacidad_maxima

\* C2: cita.save() of an admitted request inserts its row without looking at
\* the count again, so two requests admitted on the last slot both insert.
\* Every step that takes a request with an existing property out of
\* "admitido" confirms it and adds one row to its (date, type), whatever the
\* count is by then.
C2_GuardarNoRevalida ==
    [][\A r \in Reqs :
          (/\ req[r].pc = "admitido"
           /\ req'[r] # req[r]
           /\ req[r].propiedad \in propiedades)
          => /\ req'[r].pc = "confirmado"
             /\ bookedCount(citas', req[r].fecha_cita \div SlotsPerDay, req[r].tipo_cita)
                  = bookedCount(citas, req[r].fecha_cita \div SlotsPerDay,
                                req[r].tipo_cita) + 1]_vars

\* C2 witness: two requests whose checks both saw the last free slot of the
\* same record are both confirmed, and the record has capacidad_maxima + 1
\* appointments.
C2_DosEnElUltimoLugar ==
    \E r1, r2 \in Reqs :
        /\ r1 # r2
        /\ req[r1].pc = "confirmado" /\ req[r2].pc = "confirmado"
        /\ req[r1].dia = req[r2].dia
        /\ req[r1].dia \in dias
        /\ req[r1].citas_vistas = req[r1].dia.capacidad_maxima - 1
        /\ req[r2].citas_vistas = req[r2].dia.capacidad_maxima - 1
        /\ Booked(req[r1].dia) = req[r1].dia.capacidad_maxima + 1

\* C3: with the AvailableDay rows unchanged, Appointment rows created only
\* by the booking views and at most NumReq requests between check and
\* insert, the booked count never exceeds capacidad_maxima + NumReq - 1.
C3_MargenAcotado ==
    \A d \in dias : Booked(d) <= d.capacidad_maxima + NumReq - 1

\* C3 witness: the margin is reached.
C3_MargenAlcanzado ==
    \E d \in dias : NumReq >= 2 /\ Booked(d) = d.capacidad_maxima + NumReq - 1

\* C4: a date strictly before today is rejected as past whatever rows exist,
\* today itself is never rejected as past, esta_en_el_pasado agrees with the
\* check, and a request answered "past" asked for a date before today.
C4_PasadoRechazado ==
    /\ \A fecha_cita \in DateTimes, t \in Types :
          LET res == verificar_disponibilidad_dia(fecha_cita, t, dias, citas, today)
          IN  /\ fecha_cita \div SlotsPerDay < today
                   => res = Resultado(FALSE, "pasado", 0, 0)
              /\ fecha_cita \div SlotsPerDay >= today => res.motivo # "pasado"
    /\ \A d \in dias :
          esta_en_el_pasado(d, today) <=>
             verificar_disponibilidad_dia(d.fecha_disponible * SlotsPerDay,
                                          d.tipo_cita, dias, citas, today).motivo
                = "pasado"
    /\ \A r \in Reqs :
          req[r].pc = "rechazado" /\ req[r].resultado.motivo = "pasado"
             => req[r].fecha_cita \div SlotsPerDay < today

\* C4 witness: a request was rejected as past although a record with free
\* capacity exists for its date and type.
C4_PasadoConDiaLibre ==
    \E r \in Reqs, d \in dias :
        /\ req[r].pc = "rechazado"
        /\ req[r].resultado = Resultado(FALSE, "pasado", 0, 0)
        /\ PideDia(r, d)
        /\ Booked(d) < d.capacidad_maxima

\* C5: a (date, type) without AvailableDay record is rejected; when the date
\* is not past the reason is "not configured", never "full"; a request
\* answered "not configured" has no record.
C5_NoConfiguradoRechazado ==
    /\ \A fecha_cita \in DateTimes, t \in Types :
          LET res == verificar_disponibilidad_dia(fecha_cita, t, dias, citas, today)
              f == fecha_cita \div SlotsPerDay
          IN  (\A d \in dias : d.fecha_disponible # f \/ d.tipo_cita # t)
                 => /\ ~ res.disponible
                    /\ res.motivo # "lleno"
                    /\ f >= today => res.motivo = "no_configurado"
    /\ \A r \in Reqs :
          req[r].pc = "rechazado" /\ req[r].resultado.motivo = "no_configurado"
             => /\ ~ req[r].resultado.disponible
                /\ \A d \in dias : ~ PideDia(r, d)

\* C5 witness: a request for a date that is not past was rejected as not
\* configured.
C5_RechazadoSinRegistro ==
    \E r \in Reqs :
        /\ req[r].pc = "rechazado"
        /\ req[r].resultado = Resultado(FALSE, "no_configurado", 0, 0)
        /\ req[r].fecha_cita \div SlotsPerDay >= today

\* C6: for a record that is not past and has capacidad_maxima or more
\* appointments, the check rejects with the "full" reason and
\* esta_disponible() is false.
C6_LlenoRechazado ==
    \A d \in dias, fecha_cita \in DateTimes :
        (/\ fecha_cita \div SlotsPerDay = d.fecha_disponible
         /\ d.fecha_disponible >= today
         /\ Booked(d) >= d.capacidad_maxima)
        => LET res == verificar_disponibilidad_dia(fecha_cita, d.tipo_cita,
                                                   dias, citas, today)
           IN  /\ ~ res.disponible
               /\ res.motivo = "lleno"
               /\ ~ esta_disponible(d, citas)

\* C6 witness: a request found its day with exactly capacidad_maxima
\* appointments and was rejected as full.
C6_RechazadoPorLleno ==
    \E r \in Reqs :
        /\ req[r].pc = "rechazado"
        /\ req[r].resultado.motivo = "lleno"
        /\ ~ req[r].resultado.disponible
        /\ req[r].citas_vistas = req[r].dia.capacidad_maxima

\* C7: for a record that is not past and has c < capacidad_maxima
\* appointments, the check admits and the remaining capacity is
\* capacidad_maxima - c (1 when c = capacidad_maxima - 1).
C7_ConLugarAdmitido ==
    \A d \in dias, fecha_cita \in DateTimes :
        (/\ fecha_cita \div SlotsPerDay = d.fecha_disponible
         /\ d.fecha_disponible >= today
         /\ Booked(d) < d.capacidad_maxima)
        => /\ verificar_disponibilidad_dia(fecha_cita, d.tipo_cita, dias, citas,
                                           today).disponible
           /\ obtener_capacidad_disponible(d, citas) = d.capacidad_maxima - Booked(d)

\* C7 witness: a request was admitted on a day with capacidad_maxima - 1
\* appointments, whose remaining capacity is 1.
C7_AdmitidoEnUltimoLugar ==
    \E r \in Reqs :
        /\ req[r].pc = "admitido"
        /\ req[r].resultado.disponible
        /\ req[r].dia \in dias
        /\ req[r].dia.capacidad_maxima >= 2
        /\ req[r].citas_vistas = req[r].dia.capacidad_maxima - 1
        /\ obtener_capacidad_disponible(req[r].dia, citas) = 1

\* C8: obtener_capacidad_disponible() is max(0, capacidad_maxima - booked)
\* for every record, so never negative, also when the day is overbooked.
C8_CapacidadNoNegativa ==
    \A d \in dias :
        /\ obtener_capacidad_disponible(d, citas) >= 0
        /\ obtener_capacidad_disponible(d, citas) =
              (IF Booked(d) <= d.capacidad_maxima
               THEN d.capacidad_maxima - Booked(d) ELSE 0)

\* C8 witness: a record created after another one was deleted has more
\* appointments than capacity, and its remaining capacity is 0.
C8_Sobrecupo ==
    \E d \in dias :
        /\ d.pk = nextDiaPk - 1
        /\ Cardinality(dias) < nextDiaPk - 1
        /\ Booked(d) > d.capacidad_maxima
        /\ obtener_capacidad_disponible(d, citas) = 0

\* a step that raises capacidad_maxima of the row d (to the row d2) and
\* changes nothing else of the two tables
AumentaCapacidad(d, d2) ==
    /\ d2.pk = d.pk
    /\ d2.fecha_disponible = d.fecha_disponible
    /\ d2.tipo_cita = d.tipo_cita
    /\ d2.capacidad_maxima > d.capacidad_maxima
    /\ dias' \ {d2} = dias \ {d}
    /\ citas' = citas

\* C9 as stated: whenever a record is full (remaining capacity 0), an
\* increase of its capacidad_maxima makes esta_disponible() true in the next
\* state, and the check of that (date, type), if not past, admits.
C9_AumentoSiempreLibera ==
    [][\A d \in dias, d2 \in dias' :
          (AumentaCapacidad(d, d2) /\ obtener_capacidad_disponible(d, citas) = 0)
          => /\ esta_disponible(d2, citas')
             /\ d2.fecha_disponible >= today'
                  => verificar_disponibilidad_dia(d2.fecha_disponible * SlotsPerDay,
                        d2.tipo_cita, dias', citas', today').disponible]_vars

\* C9 amended: whenever a record is full without being overbooked (its
\* booked count equals capacidad_maxima), an increase of its
\* capacidad_maxima makes esta_disponible() true in the next state, and the
\* check of that (date, type), if not past, admits.
C9_AumentoLiberaSinSobrecupo ==
    [][\A d \in dias, d2 \in dias' :
          (/\ AumentaCapacidad(d, d2)
           /\ obtener_capacidad_disponible(d, citas) = 0
           /\ Booked(d) = d.capacidad_maxima)
          => /\ esta_disponible(d2, citas')
             /\ d2.fecha_disponible >= today'
                  => verificar_disponibilidad_dia(d2.fecha_disponible * SlotsPerDay,
                        d2.tipo_cita, dias', citas', today').disponible]_vars

\* C9 witness: aumentar_capacidad has loaded a record that is exactly full
\* and not past, and is about to save it with one more slot.
C9_AumentoSobreDiaLleno ==
    /\ aum # <<>>
    /\ Head(aum) \in dias
    /\ Head(aum).fecha_disponible >= today
    /\ Booked(Head(aum)) = Head(aum).capacidad_maxima
    /\ obtener_capacidad_disponible(Head(aum), citas) = 0

\* C10: the "full" rejection carries the number of appointments booked for
\* that (date, type) and the capacidad_maxima of its record.
C10_MensajeLlevaCuentaYMaximo ==
    \A d \in dias, fecha_cita \in DateTimes :
        LET res == verificar_disponibilidad_dia(fecha_cita, d.tipo_cita, dias,
                                                citas, today)
        IN  (fecha_cita \div SlotsPerDay = d.fecha_disponible /\ res.motivo = "lleno")
            => /\ res.citas_count = Booked(d)
               /\ res.capacidad = d.capacidad_maxima

\* C10 witness: a request was rejected with "MaxCap of MaxCap": the count
\* and the capacity reported are those of its full day.
C10_RechazoInformaLleno ==
    \E r \in Reqs :
        /\ req[r].pc = "rechazado"
        /\ req[r].dia \in dias
        /\ req[r].resultado = Resultado(FALSE, "lleno", Booked(req[r].dia),
                                        req[r].dia.capacidad_maxima)
        /\ req[r].resultado.citas_count = MaxCap

\* the AvailableDay rows of table ds for date f and type t
DiasDe(ds, f, t) == {d \in ds : d.fecha_disponible = f /\ d.tipo_cita = t}

\* the Appointment rows of table cs on date f with type t
CitasDe(cs, f, t) ==
    {c \in cs : c.fecha_cita \div SlotsPerDay = f /\ c.tipo_cita = t}

\* C11: the result of the check for (date, type) is the result computed
\* from the AvailableDay rows and the Appointment rows of that (date, type)
\* alone, so rows of the other type or of another date never change it; a
\* date that is not past and has a record only for the other type is
\* rejected as not configured.
C11_TiposIndependientes ==
    \A fecha_cita \in DateTimes, t \in Types :
        LET f == fecha_cita \div SlotsPerDay
            res == verificar_disponibilidad_dia(fecha_cita, t, dias, citas, today)
        IN  /\ res = verificar_disponibilidad_dia(fecha_cita, t, DiasDe(dias, f, t),
                                                  CitasDe(citas, f, t), today)
            /\ (/\ f >= today
                /\ DiasDe(dias, f, t) = {}
                /\ \E d \in dias : d.fecha_disponible = f)
               => res = Resultado(FALSE, "no_configurado", 0, 0)

\* C11 witness: a Normal request was rejected as not configured on a date
\* whose Priority record exists and already has an appointment.
C11_NormalEnDiaSoloPrioritario ==
    \E r \in Reqs, d \in dias :
        /\ req[r].pc = "rechazado"
        /\ req[r].tipo_cita = "normal"
        /\ req[r].resultado = Resultado(FALSE, "no_configurado", 0, 0)
        /\ d.fecha_disponible = req[r].fecha_cita \div SlotsPerDay
        /\ d.tipo_cita = "prioritaria"
        /\ Booked(d) >= 1

\* C12: the steps of the admission check (the AvailableDay lookup, the
\* count of esta_disponible(), the count for the "full" message) leave the
\* AvailableDay table and the Appointment table unchanged; an admitting
\* check reserves nothing, so esta_disponible() on the same record is still
\* true right after it.
C12_VerificarSoloLee ==
    [][\A r \in Reqs :
          (/\ req'[r] # req[r]
           /\ req'[r].pc \in {"cargado", "lleno", "admitido", "rechazado"})
          => /\ dias' = dias
             /\ citas' = citas
             /\ nextCitaPk' = nextCitaPk
             /\ req'[r].pc = "admitido"
                  => /\ esta_disponible(req[r].dia, citas')
                     /\ obtener_capacidad_disponible(req[r].dia, citas')
                          = obtener_capacidad_disponible(req[r].dia, citas)]_vars

\* C12 witness: two requests checked the same record one after the other
\* with no insert in between; both were admitted on the same count, which is
\* still the count of the table.
C12_DosAdmitidosMismaCuenta ==
    \E r1, r2 \in Reqs :
        /\ r1 # r2
        /\ req[r1].pc = "admitido" /\ req[r2].pc = "admitido"
        /\ req[r1].dia = req[r2].dia
        /\ req[r1].dia \in dias
        /\ req[r1].citas_vistas = req[r2].citas_vistas
        /\ req[r1].citas_vistas = Booked(req[r1].dia)
        /\ Booked(req[r1].dia) >= 1

\* the reasons of the three expected rejections
Rechazos == {"pasado", "no_configurado", "lleno"}

\* C13: for every date and type the check returns a pair and never raises
\* (AvailableDay.objects.get never finds two rows): the pair is (False,
\* reason) with one of the three reasons whenever the date is past, no
\* record exists or the record has no capacity left, and it is (True, ...)
\* only when the date is not past, a record exists and its remaining
\* capacity is positive.
C13_NuncaLanza ==
    \A fecha_cita \in DateTimes, t \in Types :
        LET f == fecha_cita \div SlotsPerDay
            res == verificar_disponibilidad_dia(fecha_cita, t, dias, citas, today)
            falla == \/ f < today
                     \/ DiasDe(dias, f, t) = {}
                     \/ \E d \in DiasDe(dias, f, t) :
                           Booked(d) >= d.capacidad_maxima
        IN  /\ res.motivo \in Rechazos \cup {"disponible"}
            /\ res.disponible <=> res.motivo = "disponible"
            /\ falla => ~ res.disponible /\ res.motivo \in Rechazos
            /\ res.disponible
                 => /\ f >= today
                    /\ \E d \in DiasDe(dias, f, t) :
                          obtener_capacidad_disponible(d, citas) > 0

\* C13 witness: after the administrator deleted a record and added another,
\* the three rejections occur side by side: one (date, type) is past, one
\* has no record and one is full.
C13_LosTresRechazos ==
    /\ Cardinality(dias) < nextDiaPk - 1
    /\ \E d \in dias : d.pk = nextDiaPk - 1
    /\ \A m \in Rechazos :
          \E fecha_cita \in DateTimes, t \in Types :
              LET res == verificar_disponibilidad_dia(fecha_cita, t, dias,
                                                      citas, today)
              IN  ~ res.disponible /\ res.motivo = m

\* positions of a request whose view rendered the form again
Rechazado == {"rechazado", "invalido"}

\* the step inserts the Appointment row of primary key pk
Inserta(pk) == (\E c \in citas' : c.pk = pk) /\ ~ (\E c \in citas : c.pk = pk)

\* C14: a request that is rejected by the check, or whose form is invalid,
\* changes no Appointment row, sends no e-mail and creates no calendar
\* event when it is rejected; afterwards it stays as it is, whatever the
\* administrator does to the capacity, until the client submits again, and
\* that submission itself creates nothing.  Every Appointment row that
\* appears is inserted by the cita.save() of a request that the check had
\* admitted, and e-mails and events are produced only by requests past
\* their cita.save().
C14_RechazadoNoCreaNada ==
    [][/\ \A r \in Reqs :
             /\ (req'[r] # req[r] /\ req'[r].pc \in Rechazado)
                  => /\ citas' = citas
                     /\ correos' = correos
                     /\ eventos' = eventos
             /\ (req[r].pc \in Rechazado /\ req'[r] # req[r])
                  => /\ req'[r].pc \in {"cargado", "rechazado", "invalido", "error"}
                     /\ citas' = citas
                     /\ correos' = correos
                     /\ eventos' = eventos
       /\ \A pk \in 1..MaxCitas :
             Inserta(pk)
                => \E r \in Reqs : /\ req[r].pc = "admitido"
                                   /\ req[r].resultado.disponible
                                   /\ req'[r].pc = "confirmado"
                                   /\ req'[r].cita = pk
       /\ (correos' # correos \/ eventos' # eventos)
             => \E r \in Reqs : /\ req[r].pc \in {"confirmado", "notificado"}
                                /\ req'[r] # req[r]]_vars

\* C14 witness: a request was rejected because its day was full, the
\* administrator then raised the capacity of that record, and the day has a
\* free slot that no Appointment of the rejected request has taken.
C14_RechazadoYLuegoHayLugar ==
    \E r \in Reqs, d \in dias :
        /\ req[r].pc = "rechazado"
        /\ req[r].resultado.motivo = "lleno"
        /\ d.pk = req[r].dia.pk
        /\ d.capacidad_maxima > req[r].dia.capacidad_maxima
        /\ Booked(d) = req[r].resultado.citas_count
        /\ Booked(d) < d.capacidad_maxima

\* the row c is still in the table after the step, with at most its
\* google_event_id changed
Persiste(c) ==
    \E c2 \in citas' : c2.pk = c.pk /\ [c2 EXCEPT !.google_event_id = c.google_event_id] = c

\* C16: once cita.save() has run, the notification step and the calendar
\* step, whether they succeed or fail, remove no Appointment row and change
\* no field but google_event_id, and they take the view to the redirect;
\* while the property is not deleted, the row of a request past its
\* cita.save() is in the table.
C16_FalloNoRevierte ==
    /\ [](\A r \in Reqs :
             (/\ req[r].pc \in {"confirmado", "notificado", "redirigido"}
              /\ propiedades = 1..MaxProps)
             => \E c \in citas : c.pk = req[r].cita)
    /\ [][\A r \in Reqs :
             (req[r].pc \in {"confirmado", "notificado"} /\ req'[r] # req[r])
             => /\ req'[r].pc = IF req[r].pc = "confirmado"
                                THEN "notificado" ELSE "redirigido"
                /\ req'[r].cita = req[r].cita
                /\ \A c \in citas : Persiste(c)
                /\ \A c2 \in citas' : \E c \in citas : c.pk = c2.pk]_vars

\* C16 witness: with Google Calendar connected, a request reached the
\* redirect after the e-mail failed and the calendar event failed, and its
\* Appointment is in the table.
C16_FallaronAmbosYLaCitaSigue ==
    \E r \in Reqs :
        /\ req[r].pc = "redirigido"
        /\ google_token # {}
        /\ req[r].cita \notin correos
        /\ req[r].cita \notin eventos
        /\ \E c \in citas : c.pk = req[r].cita /\ c.google_event_id = None

\* the row of primary key pk in table cs
Fila(cs, pk) == CHOOSE c \in cs : c.pk = pk

Existe(cs, pk) == \E c \in cs : c.pk = pk

\* the step is the cita.save() of the admitted request r, inserting pk
GuardaReserva(r, pk) ==
    /\ req[r].pc = "admitido"
    /\ req[r].resultado.disponible
    /\ req'[r].pc = "confirmado"
    /\ req'[r].cita = pk

\* the step is the calendar step of request r, whose appointment is pk
PasoCalendario(r, pk) ==
    /\ req[r].pc = "notificado"
    /\ req'[r].pc = "redirigido"
    /\ req[r].cita = pk

\* the step is made by the administrator or the dashboard: no booking
\* request moves
SinReserva == req' = req

C17_FallosDeCalendarioTragados ==
    /\ [](llamada.retorno # "excepcion")
    /\ [][/\ (propiedades' = propiedades)
                => \A c \in citas : Existe(citas', c.pk) /\ Persiste(c)
          /\ (/\ SinReserva
              /\ propiedades' = propiedades
              /\ llamada'.funcion = "eliminar_evento_google_calendar"
              /\ llamada'.retorno # "True")
                => citas' = citas]_vars

\* C18: no two AvailableDay rows hold the same (fecha_disponible,
\* tipo_cita) and no two hold the same primary key, whatever the
\* administrator adds, edits, deletes or saves: an add, an edit or a save
\* that would make two rows of one pair is refused.
C18_UnRegistroPorPar ==
    \A d1 \in dias, d2 \in dias :
        (\/ d1.pk = d2.pk
         \/ (/\ d1.fecha_disponible = d2.fecha_disponible
             /\ d1.tipo_cita = d2.tipo_cita))
            => d1 = d2

\* C18 witness: the action aumentar_capacidad is about to save a row it
\* loaded before the administrator moved that row to another pair and gave
\* its old pair to a new row: the save collides; the table holds two rows.
C18_GuardadoPendienteChoca ==
    /\ aum # <<>>
    /\ Cardinality(dias) = MaxDias
    /\ \E d \in dias : /\ d.pk = Head(aum).pk
                       /\ d # Head(aum)
    /\ ~ unique_together(dias, Head(aum).pk, Head(aum).fecha_disponible,
                         Head(aum).tipo_cita)

\* C19: capacidad_maxima of every AvailableDay row is at least 1 in every
\* state, whatever the administrator adds, edits or raises with
\* aumentar_capacidad (also in the rows about to be saved by it); a row
\* added without setting the capacity gets 3; and a step never takes a
\* capacity to 0 or less.
C19_CapacidadPositiva ==
    /\ [](/\ \A d \in dias : d.capacidad_maxima >= 1
          /\ \A i \in DOMAIN aum : aum[i].capacidad_maxima + 1 >= 1
          /\ capacidad_del_formulario(None) = 3)
    /\ [][\A d \in dias' : d.capacidad_maxima > 0]_vars

\* C19 witness: with a row deleted before, the administrator has added a
\* row that has capacity 3, and aumentar_capacidad is about to raise a row
\* of the minimum capacity.
C19_PorDefectoYAumento ==
    /\ Cardinality(dias) < nextDiaPk - 1
    /\ \E d \in dias : d.pk = nextDiaPk - 1 /\ d.capacidad_maxima = 3
    /\ aum # <<>>
    /\ Head(aum).capacidad_maxima = MinCapacidad

\* C20 as stated: in every state, every Appointment whose tipo_cita is
\* "normal" has ingresos_mensuales and tipo_credito both null.
C20_NormalSinCredito ==
    \A c \in citas :
        c.tipo_cita = "normal"
            => c.ingresos_mensuales = None /\ c.tipo_credito = "None"

\* the months of the calendar
Meses == 0..mes_de(MaxDate)

\* the elements of a list
Elementos(lista) == {lista[i] : i \in DOMAIN lista}

\* C21: for every month and type, the list of
\* obtener_fechas_disponibles_mes holds, once each, exactly the dates of
\* that month that have an AvailableDay row of that type, are not before
\* today and have remaining capacity above zero; and a date of the month is
\* in the list if and only if verificar_disponibilidad_dia, on the same
\* state, admits it.
C21_ListaIgualQueVerificar ==
    \A mes \in Meses, t \in Types :
        LET fechas == obtener_fechas_disponibles_mes(mes, t, dias, citas, today)
        IN  /\ Cardinality(Elementos(fechas)) = Len(fechas)
            /\ Elementos(fechas) =
                  {f \in Dates :
                      /\ mes_de(f) = mes
                      /\ f >= today
                      /\ \E d \in dias :
                            /\ d.fecha_disponible = f
                            /\ d.tipo_cita = t
                            /\ d.capacidad_maxima - Booked(d) > 0}
            /\ \A f \in Dates :
                  mes_de(f) = mes
                     => (f \in Elementos(fechas)
                           <=> verificar_disponibilidad_dia(
                                  fecha_cita_de_formulario(f), t, dias, citas,
                                  today).disponible)

\* C21 witness: a row raised by aumentar_capacidad above its bookings is
\* in the list of its month, while a row with room is left out of the list
\* of its month because its date is past.
C21_UnaListadaOtraPasada ==
    /\ \E d \in dias :
          /\ d.capacidad_maxima = MaxCap + 1
          /\ Booked(d) = MaxCap
          /\ d.fecha_disponible \in
                Elementos(obtener_fechas_disponibles_mes(
                             mes_de(d.fecha_disponible), d.tipo_cita, dias,
                             citas, today))
    /\ \E d \in dias :
          /\ esta_disponible(d, citas)
          /\ d.fecha_disponible \notin
                Elementos(obtener_fechas_disponibles_mes(
                             mes_de(d.fecha_disponible), d.tipo_cita, dias,
                             citas, today))

\* the step is one dia.save() of the loop of aumentar_capacidad
GuardaDia == aum # <<>> /\ aum' # aum

\* the rows of table ds other than the one of primary key pk
OtrosDias(ds, pk) == {x \in ds : x.pk # pk}

\* C22 as stated: loading the selected rows changes no table, and each
\* dia.save() of aumentar_capacidad leaves the selected row with its
\* capacidad_maxima raised by exactly 1 and its date and type as they were,
\* and changes no other AvailableDay row and no Appointment row.
C22_AumentarSoloSumaUno ==
    [][/\ (aum = <<>> /\ aum' # <<>>) => (dias' = dias /\ citas' = citas)
       /\ GuardaDia
            => /\ citas' = citas
               /\ OtrosDias(dias', Head(aum).pk) = OtrosDias(dias, Head(aum).pk)
               /\ \E d \in dias :
                     /\ d.pk = Head(aum).pk
                     /\ [d EXCEPT !.capacidad_maxima = @ + 1] \in dias']_vars

\* C28 as stated: no capacity increase is lost: each dia.save() of
\* aumentar_capacidad leaves the row with one more than the capacidad_maxima
\* stored just before the save, whatever an administrator's edit wrote
\* after the action loaded the row.
C28_AumentoNoSePierde ==
    [][GuardaDia
          => \A d \in dias :
                d.pk = Head(aum).pk
                   => \E d2 \in dias' :
                         /\ d2.pk = d.pk
                         /\ d2.capacidad_maxima = d.capacidad_maxima + 1]_vars

\* C29 as stated: when the row that aumentar_capacidad loaded has been
\* deleted in the meantime, its dia.save() creates no AvailableDay row: the
\* table stays as it is, and the check of the (date, type) of that row, if
\* no other row holds it and it is not past, keeps answering that the day
\* is not configured.
C29_BorradoSigueBorrado ==
    [][(GuardaDia /\ \A d \in dias : d.pk # Head(aum).pk)
          => /\ dias' = dias
             /\ (/\ Head(aum).fecha_disponible >= today
                 /\ DiasDe(dias, Head(aum).fecha_disponible,
                           Head(aum).tipo_cita) = {})
                   => verificar_disponibilidad_dia(
                         fecha_cita_de_formulario(Head(aum).fecha_disponible),
                         Head(aum).tipo_cita, dias', citas',
                         today').motivo = "no_configurado"]_vars

\* the Appointment rows of table cs that belong to property pk
CitasDePropiedad(cs, pk) == {c \in cs : c.property = pk}

\* C23: a step of property_delete_view for a POST whose 'confirmar' is
\* 'ELIMINAR' removes that property and exactly its Appointment rows, so
\* the booked count of every (date, type) drops by the number of rows
\* removed for it; a step of the view for a GET, or for a POST with another
\* confirmation value, changes neither table; an Appointment row disappears
\* only together with its property; and in every state every Appointment
\* references a property that exists.
C23_BorradoSoloConfirmado ==
    /\ [](\A c \in citas : c.property \in propiedades)
    /\ [][/\ \A pk \in propiedades, method \in {"GET", "POST"},
                confirmar \in Confirmaciones :
                property_delete_view(pk, method, confirmar)
                   => IF method = "POST" /\ confirmar = "ELIMINAR"
                      THEN /\ propiedades' = propiedades \ {pk}
                           /\ citas' = citas \ CitasDePropiedad(citas, pk)
                           /\ \A f \in Dates, t \in Types :
                                 bookedCount(citas', f, t) =
                                    bookedCount(citas, f, t)
                                    - Cardinality(CitasDe(
                                         CitasDePropiedad(citas, pk), f, t))
                      ELSE propiedades' = propiedades /\ citas' = citas
          /\ \A c \in citas :
                ~ Existe(citas', c.pk)
                   => c.property \in propiedades \ propiedades']_vars

\* C23 witness: one property was deleted while the other one is there; the
\* Appointments booked on the other one are in the table, and a request
\* that had loaded the deleted property failed at its cita.save().
C23_UnaBorradaOtraConCitas ==
    /\ Cardinality(propiedades) = MaxProps
    /\ citas # {}
    /\ nextCitaPk - 1 > Cardinality(citas)
    /\ \E r \in Reqs : req[r].pc = "error"

\* C24 as stated: while an administrator who has disconnected Google
\* Calendar has not connected again, no Appointment booked since gets a
\* calendar event (no event is inserted and no google_event_id is stored);
\* and a request to google_disconnect_view that is not a POST deletes no
\* token.  Every administrator starts connected and disconnects only
\* between bookings, so an administrator without a token is one who
\* disconnected before the bookings in flight began.
C24_DesconectadoSinEventos ==
    [][/\ (\/ eventos' # eventos
           \/ \E c \in citas' :
                 /\ c.google_event_id # None
                 /\ \A c0 \in citas : c0.pk = c.pk => c0.google_event_id = None)
             => google_token = Usuarios
       /\ \A usuario \in Usuarios, method \in {"GET", "POST"} :
             (method # "POST" /\ google_disconnect_view(usuario, method))
                => google_token' = google_token]_vars

SinSobrecupo(ds, cs) ==
    /\ \A c \in cs : DiasDe(ds, fecha_date(c.fecha_cita), c.tipo_cita) # {}
    /\ \A d \in ds :
          bookedCount(cs, d.fecha_disponible, d.tipo_cita) <= d.capacidad_maxima

\* the step changes the date or the type of an AvailableDay row
MueveDia ==
    \E d \in dias, d2 \in dias' :
        /\ d2.pk = d.pk
        /\ (d2.fecha_disponible # d.fecha_disponible \/ d2.tipo_cita # d.tipo_cita)

C26_LlenoInformaCuentaCompleta ==
    \A r \in Reqs :
        (req[r].pc = "rechazado" /\ req[r].resultado.motivo = "lleno")
            => req[r].resultado.citas_count >= req[r].resultado.capacidad

\* the AvailableDay (f, t) counts row c among its booked appointments
CuentaEn(c, f, t, cs) ==
    c \in obtener_citas_agendadas([fecha_disponible |-> f, tipo_cita |-> t], cs)

\* C27: a booking view checks the day of the date submitted and of its own
\* type, whatever tipo_cita the request posts, and the row that its
\* cita.save() inserts has the view's type and is counted by
\* obtener_citas_agendadas for the (date, type) that was checked and for no
\* other.
C27_ReservaCuentaEnLoVerificado ==
    [][/\ \A r \in Reqs, vista \in Types, p \in propiedades, f \in Dates,
             datos \in FormulariosReservas :
             (create_appointment_view(r, vista, p, f, datos)
                 /\ req'[r].pc = "cargado")
                => /\ req'[r].dia.tipo_cita = vista
                   /\ req'[r].dia.fecha_disponible = f
                   /\ req'[r].tipo_cita = vista
                   /\ fecha_date(req'[r].fecha_cita) = f
       /\ \A r \in Reqs, pk \in 1..MaxCitas :
             GuardaReserva(r, pk)
                => /\ ~Existe(citas, pk)
                   /\ Existe(citas', pk)
                   /\ Fila(citas', pk).tipo_cita = req[r].tipo_cita
                   /\ \A f \in Dates, t \in Types :
                         CuentaEn(Fila(citas', pk), f, t, citas')
                            <=> /\ f = req[r].dia.fecha_disponible
                                /\ t = req[r].dia.tipo_cita]_vars

\* C27 happens: on one date, a request to the normal view and a request to
\* the priority view have each saved their row, of their view's type
C27_UnaNormalYUnaPrioritaria ==
    \E r1, r2 \in Reqs :
        /\ req[r1].pc = "confirmado" /\ req[r1].tipo_cita = "normal"
        /\ req[r2].pc = "confirmado" /\ req[r2].tipo_cita = "prioritaria"
        /\ fecha_date(req[r1].fecha_cita) = fecha_date(req[r2].fecha_cita)
        /\ Existe(citas, req[r1].cita) /\ Existe(citas, req[r2].cita)
        /\ Fila(citas, req[r1].cita).tipo_cita = "normal"
        /\ Fila(citas, req[r2].cita).tipo_cita = "prioritaria"

----------------------------------------------------------------------------
(* The administrator deleting and creating again the record of one day,    *)
(* the last date for normal appointments, with appointments already booked *)

InitRecrear ==
    /\ today = 0
    /\ propiedades = 1..MaxProps
    /\ nextPropPk = MaxProps + 1
    /\ dias \in {{[pk |-> 1, fecha_disponible |-> MaxDate, tipo_cita |-> "normal",
                   capacidad_maxima |-> cap]} : cap \in Caps}
    /\ nextDiaPk = 2
    /\ citas \in UNION {CitasRegistradas(p) : p \in propiedades}
    /\ nextCitaPk = Cardinality(citas) + 1
    /\ req = [r \in Reqs |-> Idle]
    /\ aum = <<>>
    /\ google_token = {}
    /\ eventos = {}
    /\ correos = {}
    /\ llamada = NoLlamada

NextRecrear ==
    \/ \E cap \in {None} \cup Caps : AvailableDayAdmin_add(MaxDate, "normal", cap)
    \/ \E queryset \in SUBSET dias : marcar_como_no_disponible(queryset)
    \/ \E queryset \in SUBSET dias : aumentar_capacidad(queryset)
    \/ aumentar_capacidad_save

SpecRecrear == InitRecrear /\ [][NextRecrear]_vars

\* primary keys of the rows of table ds
Claves(ds) == {d.pk : d \in ds}

\* C30: a step that deletes an AvailableDay row leaves the Appointment table
\* as it is, and a row that a step creates counts the appointments that are
\* in the table for its (date, type): its remaining capacity is
\* max(0, capacidad_maxima - that count), not its full capacity.
C30_BorrarDiaNoTocaCitas ==
    [][/\ (\E d \in dias : d.pk \notin Claves(dias')) => citas' = citas
       /\ \A d \in dias' :
             d.pk \notin Claves(dias)
                => /\ obtener_citas_agendadas(d, citas')
                         = {c \in citas : /\ fecha_date(c.fecha_cita) = d.fecha_disponible
                                          /\ c.tipo_cita = d.tipo_cita}
                   /\ obtener_capacidad_disponible(d, citas')
                         = (IF Booked(d) <= d.capacidad_maxima
                            THEN d.capacidad_maxima - Booked(d) ELSE 0)]_vars

\* C30 happens: the record of the day was deleted and created again, and
\* the new record has appointments booked before and less room than its
\* capacidad_maxima
C30_RecreadoConCitas ==
    \E d \in dias :
        /\ d.pk >= 2
        /\ Booked(d) >= 1
        /\ Booked(d) < d.capacidad_maxima
        /\ obtener_capacidad_disponible(d, citas) = d.capacidad_maxima - Booked(d)

====
